---- MODULE Spec2Model ----
(***************************************************************************)
(* A model of the Synthsara client scripts:                                *)
(*   - the chat helpers (addMessageToChat, the typing indicator, the       *)
(*     SacredChat utilities) of src/unnamed/part_000;                      *)
(*   - the authentication glue, the modals and the notifications of        *)
(*     src/Genesis/static/js/main.js.                                      *)
(* A chat container is the sequence of its child elements.  A string is a  *)
(* sequence of one-character tokens; an HTML tag or entity produced by the *)
(* code is one token.  The character "n" stands for the line feed.         *)
(***************************************************************************)
EXTENDS Integers, Sequences, FiniteSets, TLC

VARIABLES
    container,   \* the children of the chat container, in document order
    storage,     \* localStorage: key -> NoItem or the stored JSON text
    now          \* what the wall clock displays (hour:minute)

VARIABLES
    requests,    \* the fetches in flight: [id, op, aiType, cb]
    issued,      \* how many requests the page has issued
    calls        \* the invocations of sendMessage callbacks: [id, arg]

VARIABLES
    isAuthenticated,
    currentUser,
    authInterface,   \* which of .auth-required / .guest-only is displayed
    modalDisplay,    \* modal id -> style.display
    bodyOverflow,    \* document.body.style.overflow
    notifications,   \* the .sacred-notification elements in the document
    dismissTimers,   \* pending 5000 ms timers, oldest first (element ids)
    removeTimers,    \* pending 300 ms timers, oldest first (element ids)
    navTimers,       \* pending 1000 ms timers, oldest first
    page             \* "live", or how the document was replaced

chatVars == <<container, storage, now>>

sendVars == <<requests, issued, calls>>

authVars == <<isAuthenticated, currentUser, authInterface>>

modalVars == <<modalDisplay, bodyOverflow>>

notifVars == <<notifications, dismissTimers, removeTimers>>

timerVars == <<navTimers, page>>

netVars == <<requests, issued, calls, isAuthenticated, currentUser,
             authInterface, modalDisplay, bodyOverflow, notifications,
             dismissTimers, removeTimers, navTimers, page>>

vars == <<container, storage, now, requests, issued, calls, isAuthenticated,
          currentUser, authInterface, modalDisplay, bodyOverflow,
          notifications, dismissTimers, removeTimers, navTimers, page>>

----------------------------------------------------------------------------
(* Bounds and input sets *)

\* the most children the container is let grow to
MaxMsgs == 3

\* the most requests one page issues after its load
MaxRequests == 2

\* the most notification elements alive (in the document or held by a timer)
MaxNotifs == 3

\* the messages callers pass: plain text, and text with emphasis marks
\* around a line feed
Messages == { <<"a">>, <<"*", "n", "*">> }

Types == {"user", "ai"}

\* the display strings the clock goes through
Times == {"09:00", "09:01"}

Keys == {"sacredChat"}

\* what getItem returns for a key never written (null)
NoItem == [present |-> FALSE, json |-> << >>]
NoTime == "none"

----------------------------------------------------------------------------
(* Text: formatAIResponse, escapeHtml and what the HTML parser makes of     *)
(* the generated markup                                                     *)

Tags == {"<strong>", "</strong>", "<em>", "</em>", "<br>"}

Min(S) == CHOOSE x \in S : \A y \in S : x <= y

\* the ends j of the candidate matches of  delim (.*?) delim  starting at i:
\* the closing delimiter starts at j and "." has crossed no line feed
Closers(s, i, w) ==
    { j \in (i + w)..(Len(s) - w + 1) :
        /\ \A d \in 0..(w - 1) : s[j + d] = "*"
        /\ \A k \in (i + w)..(j - 1) : s[k] # "n" }

Opens(s, i, w) ==
    /\ i + w - 1 <= Len(s)
    /\ \A d \in 0..(w - 1) : s[i + d] = "*"
    /\ Closers(s, i, w) # {}

\* String.prototype.replace with a global regular expression: leftmost
\* match, lazy body, scanning resumes after the match
RECURSIVE ReplacePairs(_, _, _, _, _)
ReplacePairs(s, i, w, open, close) ==
    IF i > Len(s) THEN << >>
    ELSE IF Opens(s, i, w)
         THEN LET j == Min(Closers(s, i, w))
              IN  <<open>> \o SubSeq(s, i + w, j - 1) \o <<close>>
                    \o ReplacePairs(s, j + w, w, open, close)
         ELSE <<s[i]>> \o ReplacePairs(s, i + 1, w, open, close)

ReplaceNewlines(s) == [i \in 1..Len(s) |-> IF s[i] = "n" THEN "<br>" ELSE s[i]]

formatAIResponse(message) ==
    LET bold   == ReplacePairs(message, 1, 2, "<strong>", "</strong>")
        italic == ReplacePairs(bold, 1, 1, "<em>", "</em>")
    IN  ReplaceNewlines(italic)

EscapeChar(c) ==
    CASE c = "<" -> "&lt;"
      [] c = ">" -> "&gt;"
      [] c = "&" -> "&amp;"
      [] OTHER   -> c

escapeHtml(text) == [i \in 1..Len(text) |-> EscapeChar(text[i])]

DecodeChar(c) ==
    CASE c = "&lt;"  -> "<"
      [] c = "&gt;"  -> ">"
      [] c = "&amp;" -> "&"
      [] OTHER       -> c

\* textContent of the element whose innerHTML is html: tags give no text,
\* entities are decoded
textContent(html) ==
    LET text == SelectSeq(html, LAMBDA c : c \notin Tags)
    IN  [i \in 1..Len(text) |-> DecodeChar(text[i])]

----------------------------------------------------------------------------
(* Chat elements *)

\* the element addMessageToChat builds
MessageDiv(message, type, timestamp) ==
    IF type = "user"
    THEN [kind |-> "user", content |-> textContent(escapeHtml(message)),
          time |-> timestamp]
    ELSE [kind |-> "ai", content |-> textContent(formatAIResponse(message)),
          time |-> timestamp]

TypingDiv == [kind |-> "typing", content |-> << >>, time |-> NoTime]

\* the welcome message of the page template: an AI message, shaped like
\* the ones addMessageToChat builds
WelcomeDiv(t) == [kind |-> "ai", content |-> <<"a">>, time |-> t]

\* class "ai-message": AI messages and the typing indicator
IsAiMessage(el) == el.kind \in {"ai", "typing"}

\* has a ".message-content p" or a ".message-text"
HasContent(el) == el.kind \in {"user", "ai"}

toLocaleTimeString(t) == t

toISOString(t) ==
    CASE t = "09:00" -> "T09:00:00.000Z"
      [] t = "09:01" -> "T09:01:00.000Z"

AppendChild(c, el) == Append(c, el)

\* addMessageToChat with the new element inserted before the first child
addMessageToChat_prepend(c, message, type, clock) ==
    <<MessageDiv(message, type, toLocaleTimeString(clock))>> \o c

addMessageToChat(c, message, type, clock) ==
    AppendChild(c, MessageDiv(message, type, toLocaleTimeString(clock)))

showTypingIndicator(c) == AppendChild(c, TypingDiv)

\* the positions of the elements with id typingIndicator
TypingAt(c) == { i \in 1..Len(c) : c[i].kind = "typing" }

RemoveAt(c, i) == SubSeq(c, 1, i - 1) \o SubSeq(c, i + 1, Len(c))

removeTypingIndicator(c) ==
    IF TypingAt(c) # {} THEN RemoveAt(c, Min(TypingAt(c))) ELSE c

\* querySelector('.ai-message:first-child')
FirstChildAi(c) == Len(c) > 0 /\ IsAiMessage(c[1])

clearHistory(c) == IF FirstChildAi(c) THEN <<c[1]>> ELSE << >>

RECURSIVE exportFrom(_, _, _)
exportFrom(c, i, clock) ==
    IF i > Len(c) THEN << >>
    ELSE IF HasContent(c[i])
         THEN << [type      |-> IF c[i].kind = "user" THEN "user" ELSE "ai",
                  content   |-> c[i].content,
                  timestamp |-> IF c[i].time # NoTime THEN c[i].time
                                ELSE toISOString(clock)] >>
              \o exportFrom(c, i + 1, clock)
         ELSE exportFrom(c, i + 1, clock)

exportHistory(c, clock) == exportFrom(c, 1, clock)

JSONstringify(history) == [present |-> TRUE, json |-> history]

JSONparse(stored) == stored.json

RECURSIVE restoreFrom(_, _, _, _)
restoreFrom(c, history, i, clock) ==
    IF i > Len(history) THEN c
    ELSE restoreFrom(
            addMessageToChat(c, history[i].content,
                             IF history[i].type = "user" THEN "user" ELSE "ai",
                             clock),
            history, i + 1, clock)

loadFromStorage(c, stored, clock) ==
    IF ~stored.present THEN c
    ELSE restoreFrom(IF FirstChildAi(c) THEN <<c[1]>> ELSE << >>,
                     JSONparse(stored), 1, clock)

----------------------------------------------------------------------------
(* The chat operations as actions *)

ChatInit ==
    /\ container \in { << >> } \cup { <<WelcomeDiv(t)>> : t \in Times }
    /\ storage = [k \in Keys |-> NoItem]
    /\ now \in Times

\* a page whose chat helpers are not called
ChatIdle ==
    /\ container = << >>
    /\ storage = [k \in Keys |-> NoItem]
    /\ now = "09:00"

AddMessageToChat ==
    /\ Len(container) < MaxMsgs
    /\ \E message \in Messages, type \in Types :
          container' = addMessageToChat(container, message, type, now)
    /\ UNCHANGED <<storage, now>>
    /\ UNCHANGED netVars

ShowTypingIndicator ==
    /\ Len(container) < MaxMsgs
    /\ container' = showTypingIndicator(container)
    /\ UNCHANGED <<storage, now>>
    /\ UNCHANGED netVars

RemoveTypingIndicator ==
    /\ container' = removeTypingIndicator(container)
    /\ UNCHANGED <<storage, now>>
    /\ UNCHANGED netVars

ClearHistory ==
    /\ container' = clearHistory(container)
    /\ UNCHANGED <<storage, now>>
    /\ UNCHANGED netVars

SaveToStorage(k) ==
    /\ storage' = [storage EXCEPT
                     ![k] = JSONstringify(exportHistory(container, now))]
    /\ UNCHANGED <<container, now>>
    /\ UNCHANGED netVars

LoadFromStorage(k) ==
    /\ Len(loadFromStorage(container, storage[k], now)) <= MaxMsgs
    /\ container' = loadFromStorage(container, storage[k], now)
    /\ UNCHANGED <<storage, now>>
    /\ UNCHANGED netVars

\* the clock moves on to another display string
Tick ==
    /\ \E t \in Times \ {now} : now' = t
    /\ UNCHANGED <<container, storage>>
    /\ UNCHANGED netVars

TranscriptNext ==
    \/ AddMessageToChat
    \/ ShowTypingIndicator
    \/ RemoveTypingIndicator
    \/ Tick

ChatNext ==
    \/ \E k \in Keys : LoadFromStorage(k)
    \/ \E k \in Keys : SaveToStorage(k)
    \/ ClearHistory
    \/ RemoveTypingIndicator
    \/ ShowTypingIndicator
    \/ AddMessageToChat
    \/ Tick

----------------------------------------------------------------------------
(* SacredChat.sendMessage *)

\* the personas of getAIIcon and getAIName
AiTypes == {"sarah", "steven", "collective"}

\* what the server answers a chat request with
ChatData == {"reply1", "reply2"}

\* the value { error: 'Communication failed' }
ErrorValue == "Communication failed"

\* the fetch rejects, or response.json() does
Rejected == "rejected"

\* what the page's own state keeps while a chat request is handled
ChatFrame == UNCHANGED <<chatVars, authVars, modalVars, notifVars, timerVars>>

\* responses delivered in the order of the requests
CanSettle_inOrder(r, inFlight) ==
    r \in inFlight /\ \A q \in inFlight : r.id <= q.id

\* fetch gives no order among the requests in flight: any of them may be
\* the next to settle
CanSettle(r, inFlight) == r \in inFlight

\* .then(data => { if (callback) callback(data) }): the callback runs, and
\* returns or throws
thenCallback(log, r, data) ==
    IF r.cb THEN Append(log, [id |-> r.id, arg |-> data]) ELSE log

\* .catch(error => { ...; if (callback) callback({error: ...}) })
catchCallback(log, r) ==
    IF r.cb THEN Append(log, [id |-> r.id, arg |-> ErrorValue]) ELSE log

\* the promise chain of sendMessage once the request has settled with
\* outcome; throws: whether the callback throws when handed the data
sendMessageChain(log, r, outcome, throws) ==
    IF outcome = Rejected THEN catchCallback(log, r)
    ELSE IF r.cb /\ throws
         THEN catchCallback(thenCallback(log, r, outcome), r)
         ELSE thenCallback(log, r, outcome)

NewRequest(op, aiType, cb) ==
    [id |-> issued + 1, op |-> op, aiType |-> aiType, cb |-> cb]

Fetch(op, aiType, cb) ==
    /\ page = "live"
    /\ issued < MaxRequests
    /\ requests' = requests \cup {NewRequest(op, aiType, cb)}
    /\ issued' = issued + 1

SendMessage ==
    /\ \E aiType \in AiTypes, cb \in BOOLEAN : Fetch("chat", aiType, cb)
    /\ UNCHANGED calls
    /\ ChatFrame

ChatSettles(r, outcome, throws) ==
    /\ page = "live"
    /\ r.op = "chat"
    /\ CanSettle(r, requests)
    /\ requests' = requests \ {r}
    /\ calls' = sendMessageChain(calls, r, outcome, throws)
    /\ UNCHANGED issued
    /\ ChatFrame

ChatResponse(r) ==
    \E outcome \in ChatData \cup {Rejected}, throws \in BOOLEAN :
        /\ (throws => r.cb /\ outcome # Rejected)
        /\ ChatSettles(r, outcome, throws)

----------------------------------------------------------------------------
(* Notifications *)

NotifIds == 1..MaxNotifs

NotificationTypes == {"success", "error", "warning", "info"}

Range(q) == { q[i] : i \in 1..Len(q) }

\* an element no longer referenced by the document or by a timer is gone
FreeIds ==
    NotifIds \ ({ n.id : n \in notifications }
                  \cup Range(dismissTimers) \cup Range(removeTimers))

\* showSacredNotification whose new element is never appended
showSacredNotification_notAppended(message, type) ==
    \E id \in FreeIds :
        /\ notifications' = {}
        /\ dismissTimers' = Append(dismissTimers, id)
        /\ UNCHANGED removeTimers

\* showSacredNotification that leaves the existing notifications in place
showSacredNotification_keepsExisting(message, type) ==
    \E id \in FreeIds :
        /\ notifications' =
              notifications \cup {[id |-> id, type |-> type, message |-> message]}
        /\ dismissTimers' = Append(dismissTimers, id)
        /\ UNCHANGED removeTimers

\* showSacredNotification(message, type): the existing notifications are
\* removed, the new element is appended and its 5000 ms timer is set
showSacredNotification(message, type) ==
    \E id \in FreeIds :
        /\ notifications' = {[id |-> id, type |-> type, message |-> message]}
        /\ dismissTimers' = Append(dismissTimers, id)
        /\ UNCHANGED removeTimers

\* a caller outside the handlers below (window.SacredInterface, the window
\* 'error' listener)
NotifFrame == UNCHANGED <<chatVars, sendVars, authVars, modalVars, timerVars>>

ShowSacredNotification ==
    /\ page = "live"
    /\ \E type \in NotificationTypes : showSacredNotification("text", type)
    /\ NotifFrame

\* the click on the close button: onclick removes the element
CloseClick ==
    /\ page = "live"
    /\ \E n \in notifications : notifications' = notifications \ {n}
    /\ UNCHANGED <<dismissTimers, removeTimers>>
    /\ NotifFrame

\* the 5000 ms timer: slides the element out and sets the 300 ms timer
DismissTimer ==
    /\ page = "live"
    /\ dismissTimers # << >>
    /\ dismissTimers' = Tail(dismissTimers)
    /\ removeTimers' = Append(removeTimers, Head(dismissTimers))
    /\ UNCHANGED notifications
    /\ NotifFrame

\* a timer that removes what querySelectorAll('.sacred-notification') finds
TimerRemoves_bySelector(id, inDocument) == inDocument

\* the elements the 300 ms timer of element id removes: its own, if it is
\* still in the document
TimerRemoves(id, inDocument) == { n \in inDocument : n.id = id }

RemoveTimer ==
    /\ page = "live"
    /\ removeTimers # << >>
    /\ removeTimers' = Tail(removeTimers)
    /\ notifications' =
          notifications \ TimerRemoves(Head(removeTimers), notifications)
    /\ UNCHANGED dismissTimers
    /\ NotifFrame

----------------------------------------------------------------------------
(* Modals *)

Modals == {"loginModal", "registerModal"}

showModal(modalId) ==
    /\ modalDisplay' = [modalDisplay EXCEPT ![modalId] = "block"]
    /\ bodyOverflow' = "hidden"

closeModal(modalId) ==
    /\ modalDisplay' = [modalDisplay EXCEPT ![modalId] = "none"]
    /\ bodyOverflow' = "auto"

closeAllModals ==
    /\ modalDisplay' = [m \in Modals |-> "none"]
    /\ bodyOverflow' = "auto"

ModalFrame == UNCHANGED <<chatVars, sendVars, authVars, notifVars, timerVars>>

\* showLogin, showRegister
ShowModal ==
    /\ page = "live"
    /\ \E m \in Modals : showModal(m)
    /\ ModalFrame

\* a click on the backdrop of a displayed modal
ClickOutside ==
    /\ page = "live"
    /\ \E m \in Modals : modalDisplay[m] = "block" /\ closeModal(m)
    /\ ModalFrame

\* the Escape key
EscapeKey ==
    /\ page = "live"
    /\ closeAllModals
    /\ ModalFrame

----------------------------------------------------------------------------
(* Authentication *)

Users == {"alice"}

NoUser == "null"

\* the bodies the server answers login, register and logout with; error:
\* the optional error string
AuthData ==
    { [rejected |-> FALSE, success |-> TRUE, user |-> u, error |-> ""] :
        u \in Users }
      \cup { [rejected |-> FALSE, success |-> FALSE, user |-> NoUser,
               error |-> e] : e \in {"", "denied"} }

\* the fetch rejects, or the body is no JSON object
AuthRejected ==
    [rejected |-> TRUE, success |-> FALSE, user |-> NoUser, error |-> ""]

StatusData ==
    { [rejected |-> FALSE, authenticated |-> TRUE, user |-> u] : u \in Users }
      \cup { [rejected |-> FALSE, authenticated |-> FALSE, user |-> NoUser] }

StatusRejected == [rejected |-> TRUE, authenticated |-> FALSE, user |-> NoUser]

updateAuthInterface(authenticated) ==
    authInterface' = IF authenticated THEN "auth-required" ELSE "guest-only"

Or(a, b) == IF a # "" THEN a ELSE b

CheckAuthenticationStatus(r, outcome) ==
    /\ page = "live"
    /\ r.op = "status"
    /\ CanSettle(r, requests)
    /\ requests' = requests \ {r}
    /\ IF ~outcome.rejected /\ outcome.authenticated
       THEN /\ isAuthenticated' = TRUE
            /\ currentUser' = outcome.user
            /\ updateAuthInterface(TRUE)
       ELSE UNCHANGED authVars
    /\ UNCHANGED <<chatVars, issued, calls, modalVars, notifVars, timerVars>>

StatusResponse ==
    \E r \in requests, outcome \in StatusData \cup {StatusRejected} :
        CheckAuthenticationStatus(r, outcome)

FetchFrame ==
    UNCHANGED <<chatVars, calls, authVars, modalVars, notifVars, timerVars>>

\* the submit handlers and logout up to their fetch
HandleLogin == Fetch("login", "none", FALSE) /\ FetchFrame

HandleRegister == Fetch("register", "none", FALSE) /\ FetchFrame

Logout == Fetch("logout", "none", FALSE) /\ FetchFrame

Welcome(op) ==
    IF op = "login" THEN "Welcome to the Sacred Space!"
    ELSE "Welcome to the Sacred Community!"

Failed(op) == IF op = "login" THEN "Login failed" ELSE "Registration failed"

FailedRetry(op) ==
    IF op = "login" THEN "Login failed. Please try again."
    ELSE "Registration failed. Please try again."

ModalOf(op) == IF op = "login" THEN "loginModal" ELSE "registerModal"

\* a success branch that sets no timer
scheduleReload_forgotten(timers) == timers

\* what the success branch does to the 1000 ms timers
scheduleReload(timers) == Append(timers, "reload")

\* what the branches for success false and for a rejection do to the
\* authentication state and the modals: nothing
onFailure_closesModal(op) ==
    /\ closeModal(ModalOf(op))
    /\ UNCHANGED <<authVars, navTimers>>

onFailure(op) == UNCHANGED <<authVars, modalVars, navTimers>>

\* the promise chain of handleLogin and handleRegister
AuthSettles(r, outcome) ==
    /\ page = "live"
    /\ r.op \in {"login", "register"}
    /\ CanSettle(r, requests)
    /\ requests' = requests \ {r}
    /\ UNCHANGED <<chatVars, issued, calls, page>>
    /\ IF outcome.rejected
       THEN /\ showSacredNotification(FailedRetry(r.op), "error")
            /\ onFailure(r.op)
       ELSE IF outcome.success
       THEN /\ showSacredNotification(Welcome(r.op), "success")
            /\ closeModal(ModalOf(r.op))
            /\ isAuthenticated' = TRUE
            /\ currentUser' = outcome.user
            /\ updateAuthInterface(TRUE)
            /\ navTimers' = scheduleReload(navTimers)
       ELSE /\ showSacredNotification(Or(outcome.error, Failed(r.op)), "error")
            /\ onFailure(r.op)

AuthResponse ==
    \E r \in requests, outcome \in AuthData \cup {AuthRejected} :
        AuthSettles(r, outcome)

\* the promise chain of logout
LogoutSettles(r, outcome) ==
    /\ page = "live"
    /\ r.op = "logout"
    /\ CanSettle(r, requests)
    /\ requests' = requests \ {r}
    /\ UNCHANGED <<chatVars, issued, calls, modalVars, page>>
    /\ IF ~outcome.rejected /\ outcome.success
       THEN /\ showSacredNotification("Sacred journey continues...", "info")
            /\ isAuthenticated' = FALSE
            /\ currentUser' = NoUser
            /\ updateAuthInterface(FALSE)
            /\ navTimers' = Append(navTimers, "navigate")
       ELSE UNCHANGED <<authVars, notifVars, navTimers>>

LogoutResponse ==
    \E r \in requests, outcome \in AuthData \cup {AuthRejected} :
        LogoutSettles(r, outcome)

\* the oldest 1000 ms timer fires: window.location.reload(), or
\* window.location.href = '/'.  The document is replaced: its elements,
\* its timers and its fetches are gone with it.
NavTimer ==
    /\ page = "live"
    /\ navTimers # << >>
    /\ page' = IF Head(navTimers) = "reload" THEN "reloaded" ELSE "navigated"
    /\ navTimers' = << >>
    /\ requests' = {}
    /\ notifications' = {}
    /\ dismissTimers' = << >>
    /\ removeTimers' = << >>
    /\ UNCHANGED <<chatVars, issued, calls, authVars, modalVars>>

----------------------------------------------------------------------------
(* Specifications *)

NetIdle ==
    /\ requests = {}
    /\ issued = 0
    /\ calls = << >>
    /\ isAuthenticated = FALSE
    /\ currentUser = NoUser
    /\ authInterface = "template"
    /\ modalDisplay = [m \in Modals |-> "none"]
    /\ bodyOverflow = "template"
    /\ notifications = {}
    /\ dismissTimers = << >>
    /\ removeTimers = << >>
    /\ navTimers = << >>
    /\ page = "live"

\* a page on which only the chat helpers are called
ChatPageInit == ChatInit /\ NetIdle

TranscriptSpec == ChatPageInit /\ [][TranscriptNext]_vars

ChatSpec == ChatPageInit /\ [][ChatNext]_vars

\* sendMessage alone
SendNext ==
    \/ SendMessage
    \/ \E r \in requests : ChatResponse(r)

SendInit == ChatIdle /\ NetIdle

SendSpec == SendInit /\ [][SendNext]_vars

\* the page of main.js: DOMContentLoaded has run checkAuthenticationStatus
PageInit ==
    /\ ChatIdle
    /\ requests = {[id |-> 0, op |-> "status", aiType |-> "none",
                     cb |-> FALSE]}
    /\ issued = 0
    /\ calls = << >>
    /\ isAuthenticated = FALSE
    /\ currentUser = NoUser
    /\ authInterface = "template"
    /\ modalDisplay = [m \in Modals |-> "none"]
    /\ bodyOverflow = "template"
    /\ notifications = {}
    /\ dismissTimers = << >>
    /\ removeTimers = << >>
    /\ navTimers = << >>
    /\ page = "live"

\* the timers of a live page fire
TimersFire ==
    /\ WF_vars(NavTimer)
    /\ WF_vars(DismissTimer)
    /\ WF_vars(RemoveTimer)

\* the notifications alone, shown by any caller
NotifyNext ==
    \/ ShowSacredNotification
    \/ CloseClick
    \/ DismissTimer
    \/ RemoveTimer

NotifySpec == PageInit /\ [][NotifyNext]_vars /\ TimersFire

\* the authentication flow with its modals, notifications and timers
LoginNext ==
    \/ StatusResponse
    \/ HandleLogin
    \/ HandleRegister
    \/ Logout
    \/ AuthResponse
    \/ LogoutResponse
    \/ NavTimer
    \/ ShowModal
    \/ DismissTimer
    \/ RemoveTimer

LoginSpec == PageInit /\ [][LoginNext]_vars /\ TimersFire

\* every network operation of the client
NetNext ==
    \/ StatusResponse
    \/ HandleLogin
    \/ HandleRegister
    \/ Logout
    \/ AuthResponse
    \/ LogoutResponse
    \/ SendMessage
    \/ \E r \in requests : ChatResponse(r)
    \/ NavTimer
    \/ DismissTimer
    \/ RemoveTimer

NetSpec == PageInit /\ [][NetNext]_vars

\* the modals with everything that opens or closes one: showLogin and
\* showRegister, the click outside, the Escape key, and the login and
\* registration handlers, which close their modal on success
ModalNext ==
    \/ ClickOutside
    \/ EscapeKey
    \/ ShowModal
    \/ AuthResponse
    \/ StatusResponse
    \/ HandleLogin
    \/ HandleRegister
    \/ NavTimer
    \/ DismissTimer
    \/ RemoveTimer

ModalSpec == PageInit /\ [][ModalNext]_vars

----------------------------------------------------------------------------
(* Properties of the transcript *)

\* a record without its timestamp
Record(r) == [type |-> r.type, content |-> r.content]

Records(history) == [i \in 1..Len(history) |-> Record(history[i])]

\* the positions of the messages among the children (no typing indicator)
MessagePositions(c) == { i \in 1..Len(c) : HasContent(c[i]) }

\* the n-th message of the container, counted down the document
NthMessage(c, n) ==
    c[CHOOSE p \in MessagePositions(c) :
        Cardinality({ q \in MessagePositions(c) : q <= p }) = n]

\* the transcript on display: the messages in document order
Displayed(c) ==
    [n \in 1..Cardinality(MessagePositions(c)) |->
        [type |-> NthMessage(c, n).kind, content |-> NthMessage(c, n).content]]

IsPrefix(s, t) == Len(s) <= Len(t) /\ SubSeq(t, 1, Len(s)) = s

\* a first child that is an AI message (and no typing indicator)
HasWelcome(c) == Len(c) > 0 /\ c[1].kind = "ai"

\* C1: saveToStorage(c, k) followed by loadFromStorage(c, k) leaves the
\* container displaying the records (type, content) it displayed when it
\* was saved: a load that finds under k what a save of the container as it
\* stands writes there changes no displayed record.
C1_RoundTrip ==
    [][\A k \in Keys :
         ( /\ storage[k].present
           /\ Records(JSONparse(storage[k])) = Displayed(container)
           /\ LoadFromStorage(k) )
         => Displayed(container') = Displayed(container)]_vars

\* C2: the transcript is append-only and in display order: addMessageToChat
\* puts the new message after every child the container holds and leaves
\* those as they are; under addMessageToChat, showTypingIndicator and
\* removeTypingIndicator the transcript on display only grows at its end,
\* and exportHistory returns it in display order.
C2_AppendOnlyDisplayOrder ==
    [][ /\ AddMessageToChat =>
             /\ Len(container') = Len(container) + 1
             /\ SubSeq(container', 1, Len(container)) = container
             /\ Displayed(container') =
                  Append(Displayed(container),
                         [type    |-> container'[Len(container')].kind,
                          content |-> container'[Len(container')].content])
        /\ (ShowTypingIndicator \/ RemoveTypingIndicator) =>
             Displayed(container') = Displayed(container)
        /\ IsPrefix(Displayed(container), Displayed(container'))
        /\ Records(exportHistory(container', now')) = Displayed(container')
      ]_vars

\* C2 witness: a typing indicator stands between two messages of different
\* types, the later one appended after the indicator was shown
C2_Witness ==
    /\ Len(container) = 3
    /\ container[1].kind = "user"
    /\ container[2].kind = "typing"
    /\ container[3].kind = "ai"

\* C3: after clearHistory the container holds its welcome message if it
\* held one, and no other message and no typing indicator.
C3_ClearAllButWelcome ==
    [][ClearHistory =>
         container' = (IF HasWelcome(container) THEN <<container[1]>>
                       ELSE << >>)]_vars

\* C9: every message restored by loadFromStorage displays the timestamp
\* stored for its record, whatever the clock reads at load time.
C9_TimestampRestored ==
    [][\A k \in Keys :
         (storage[k].present /\ LoadFromStorage(k)) =>
            LET history == JSONparse(storage[k])
                kept    == Len(container') - Len(history)
            IN  \A i \in 1..Len(history) :
                   container'[kept + i].time = history[i].timestamp]_vars

----------------------------------------------------------------------------
(* Properties of the network operations *)

\* what the callback of request id was handed, in order
ArgsOf(log, id) ==
    LET mine == SelectSeq(log, LAMBDA c : c.id = id)
    IN  [i \in 1..Len(mine) |-> mine[i].arg]

\* C4: with a callback, a failed request (or an unparsable body) hands the
\* callback the value {error: 'Communication failed'}; a request that
\* succeeds hands it the parsed data and not the error value.
C4_CallbackValue ==
    [][\A r \in requests : r.cb =>
         /\ ChatSettles(r, Rejected, FALSE)
               => ArgsOf(calls', r.id) = <<ErrorValue>>
         /\ \A data \in ChatData, throws \in BOOLEAN :
               ChatSettles(r, data, throws)
                  => ArgsOf(calls', r.id) = <<data>>]_vars

\* the pending timers that reload the page
Reloads(timers) == { i \in 1..Len(timers) : timers[i] = "reload" }

ReloadPending == Reloads(navTimers) # {}

\* what handleLogin and handleRegister do when their request settles
C5_Handler ==
    [][\A r \in requests, outcome \in AuthData \cup {AuthRejected} :
         AuthSettles(r, outcome) =>
            IF ~outcome.rejected /\ outcome.success
            THEN /\ modalDisplay'[ModalOf(r.op)] = "none"
                 /\ isAuthenticated'
                 /\ currentUser' = outcome.user
                 /\ navTimers' = Append(navTimers, "reload")
            ELSE navTimers' = navTimers]_vars

\* a reload is scheduled by nothing but such a success
C5_OnlySuccessSchedules ==
    [][Cardinality(Reloads(navTimers')) > Cardinality(Reloads(navTimers)) =>
         \E r \in requests, outcome \in AuthData :
            outcome.success /\ AuthSettles(r, outcome)]_vars

\* C5 as stated: the page is reloaded if and only if the response has
\* success true: on success the modal is closed, isAuthenticated is true,
\* currentUser is the returned user and the reload is eventually performed;
\* otherwise no reload is scheduled.
C5_ReloadIffSuccess ==
    /\ C5_Handler
    /\ C5_OnlySuccessSchedules
    /\ ReloadPending ~> (page = "reloaded")

\* C5 as amended: as above, but the scheduled reload is performed unless
\* the redirect of a logout, scheduled before it, replaces the page first.
C5_ReloadUnlessRedirected ==
    /\ C5_Handler
    /\ C5_OnlySuccessSchedules
    /\ ReloadPending ~> (page = "reloaded" \/ page = "navigated")
    /\ [][page' = "navigated" => Head(navTimers) = "navigate"]_vars

\* C5 witness: a login or registration succeeded and its reload was
\* performed
C5_Witness == page = "reloaded" /\ isAuthenticated /\ currentUser \in Users

InDocument(id) == \E n \in notifications : n.id = id

\* C6: every notification is eventually removed from the document with no
\* click needed, also when a later one replaces it before its timers fire;
\* the timers of a replaced notification remove no later notification.
C6_AutoDismiss ==
    /\ \A id \in NotifIds : InDocument(id) ~> ~InDocument(id)
    /\ [][DismissTimer => notifications' = notifications]_vars
    /\ [][RemoveTimer =>
            \A n \in notifications \ notifications' :
               n.id = Head(removeTimers)]_vars

\* C6 witness: the 300 ms timer of a replaced notification is the next to
\* fire while a later notification is in the document
C6_Witness ==
    /\ removeTimers # << >>
    /\ notifications # {}
    /\ ~InDocument(Head(removeTimers))

\* an error notification that was not there appears
ErrorShown ==
    \E n \in notifications' : n.type = "error" /\ n \notin notifications

StatusFails(r) == CheckAuthenticationStatus(r, StatusRejected)

AuthFails(r) == AuthSettles(r, AuthRejected)

LogoutFails(r) == LogoutSettles(r, AuthRejected)

ChatFails(r) == ChatSettles(r, Rejected, FALSE)

\* C7 as stated: whichever network operation fails, an error notification
\* is shown.
C7_EveryFailureToasts ==
    [][\A r \in requests :
         (StatusFails(r) \/ AuthFails(r) \/ LogoutFails(r) \/ ChatFails(r))
            => ErrorShown]_vars

\* C7 as amended: every failure is caught; handleLogin and handleRegister
\* show an error notification; checkAuthenticationStatus and logout only
\* log, and sendMessage logs and hands its callback the error value: these
\* three show no notification.
C7_FailureHandling ==
    [][\A r \in requests :
         /\ AuthFails(r) => ErrorShown
         /\ (StatusFails(r) \/ LogoutFails(r) \/ ChatFails(r))
               => UNCHANGED <<notifVars, authVars, modalVars, timerVars>>
         /\ (ChatFails(r) /\ r.cb) => ArgsOf(calls', r.id) = <<ErrorValue>>
      ]_vars

\* C7 witness: a login request has failed and its error notification is on
\* display; the status check has settled without authenticating the user
C7_Witness ==
    /\ \E n \in notifications : n.message = "Login failed. Please try again."
    /\ \A r \in requests : r.op # "status"
    /\ ~isAuthenticated

\* C8: no order among concurrent requests: each chat request in flight may
\* be the next to complete, whatever else is in flight; sending cancels and
\* merges nothing, and a completion takes away its own request only and
\* calls only that request's callback.
C8_NoOrdering ==
    /\ [](\A r \in requests : r.op = "chat" => ENABLED ChatResponse(r))
    /\ [][SendMessage =>
            /\ requests \subseteq requests'
            /\ Cardinality(requests') = Cardinality(requests) + 1]_vars
    /\ [][\A r \in requests : ChatResponse(r) =>
            /\ requests' = requests \ {r}
            /\ \A i \in (Len(calls) + 1)..Len(calls') : calls'[i].id = r.id
            /\ SubSeq(calls', 1, Len(calls)) = calls]_vars

\* C8 witness: the callback of a later request ran before the callback of
\* an earlier one
C8_Witness ==
    \E i, j \in 1..Len(calls) : i < j /\ calls[i].id > calls[j].id

\* C10: a failed login or registration (success false, or a failed
\* request) leaves isAuthenticated, currentUser and the modals as they
\* were and schedules nothing; it shows an error notification and no other.
C10_FailureKeepsAuthState ==
    [][\A r \in requests, outcome \in AuthData \cup {AuthRejected} :
         (AuthSettles(r, outcome) /\ (outcome.rejected \/ ~outcome.success))
            => /\ isAuthenticated' = isAuthenticated
               /\ currentUser' = currentUser
               /\ authInterface' = authInterface
               /\ modalDisplay' = modalDisplay
               /\ navTimers' = navTimers
               /\ page' = page
               /\ ErrorShown
               /\ \A n \in notifications' : n.type = "error"]_vars

\* C10 witness: a login was refused while its modal was open and the user
\* known from the status check: both are as they were
C10_Witness ==
    /\ \E n \in notifications : n.message = "Login failed"
    /\ modalDisplay["loginModal"] = "block"
    /\ isAuthenticated
    /\ currentUser = "alice"

\* the element created by the most recent call of showSacredNotification
\* whose timers have not both fired: every call sets a 5000 ms timer, and a
\* 5000 ms timer that fires sets a 300 ms timer, each kind firing in the
\* order it was set
LatestShown ==
    IF dismissTimers # << >> THEN dismissTimers[Len(dismissTimers)]
    ELSE removeTimers[Len(removeTimers)]

\* C11: at most one notification is in the document at any time, and it is
\* the one created by the most recent call of showSacredNotification, after
\* any sequence of calls, timer firings and clicks on the close button.
C11_AtMostOneLatest ==
    /\ Cardinality(notifications) <= 1
    /\ \A n \in notifications :
          /\ dismissTimers # << >> \/ removeTimers # << >>
          /\ n.id = LatestShown

\* C11 witness: a call replaced an earlier notification whose timers are
\* still pending (one has slid out, one has not), and the new notification
\* is the only one in the document
C11_Witness ==
    /\ Cardinality(notifications) = 1
    /\ Len(dismissTimers) >= 2
    /\ removeTimers # << >>

\* C12: sendMessage invokes a supplied callback exactly once per call on
\* every path: once with the response data on success or once with the
\* error value on failure, never both, also when the callback throws while
\* it handles the data; without a callback nothing is invoked.
C12_ExactlyOnce ==
    [][\A r \in requests :
         /\ ChatSettles(r, Rejected, FALSE) =>
               ArgsOf(calls', r.id) = (IF r.cb THEN <<ErrorValue>> ELSE << >>)
         /\ \A data \in ChatData, throws \in BOOLEAN :
               ((throws => r.cb) /\ ChatSettles(r, data, throws)) =>
                  /\ Len(ArgsOf(calls', r.id)) = (IF r.cb THEN 1 ELSE 0)
                  /\ ErrorValue \notin Range(ArgsOf(calls', r.id))]_vars

OpenModals == { m \in Modals : modalDisplay[m] = "block" }

\* C13: page scrolling is locked exactly while a modal is open: whatever
\* showModal, closeModal, closeAllModals and the click outside have done,
\* the body's overflow is 'hidden' if at least one modal is displayed and
\* 'auto' (or what the template left, before any of them ran) if none is;
\* closing one of two open modals leaves scrolling locked.
C13_ScrollLockedWhileOpen ==
    IF OpenModals # {}
    THEN bodyOverflow = "hidden"
    ELSE bodyOverflow \in {"auto", "template"}

====
